---- MODULE Spec2Model ----
(***************************************************************************)
(* Glucose reading ingestion and query pipeline of the xDrip+ glucose      *)
(* server: the express-validator chains, the handleXDripUpload and         *)
(* getGlucoseReadings controllers and the Mongoose Glucose model.          *)
(*                                                                         *)
(* Units.  Glucose values are integers in hundredths of a mg/dL (120.5     *)
(* mg/dL is 12050); metadata numbers are integers in tenths; the clock     *)
(* and every timestamp count whole minutes.                                *)
(***************************************************************************)
EXTENDS Integers, Sequences, FiniteSets, TLC

VARIABLES store, clock, lastReq, lastResp, env, push

vars == <<store, clock, lastReq, lastResp, env, push>>

(***************************************************************************)
(* Bounds of the exploration.                                              *)
(***************************************************************************)
MaxClock == 2
MaxIngest == 2
MaxStore == 3
MaxRequests == 3

(***************************************************************************)
(* Program constants.                                                      *)
(***************************************************************************)
GlucoseMin == 0
GlucoseMax == 100000
DeviceMaxLength == 100
PercentMin == 0
PercentMax == 1000
LimitMin == 1
LimitMax == 100
DefaultLimit == 10
DefaultHours == 24
SourceIpMaxLength == 45
UserAgentMaxLength == 500

Undefined == "undefined"
\* NODE_ENV: what the process was started with; development when unset.
Environments == {"production", "development", "test"}
DefaultEnv == "development"
\* The push service before startServer has initialised it: nothing handed
\* over, nothing delivered.
NoPush == [initialised |-> FALSE, pending |-> <<>>, log |-> <<>>]
Trends == {"Rising", "Falling", "Stable", "Unknown"}
Noises == {"Clean", "Light", "Medium", "Heavy"}
XDripDevice == [core |-> "xDrip+", len |-> 6, pad |-> 0]

(***************************************************************************)
(* JavaScript helpers.                                                     *)
(***************************************************************************)
\* Values of request fields.
Absent == [kind |-> "absent", v |-> 0]
Num(n) == [kind |-> "num", v |-> n]
Integer(n) == [kind |-> "int", v |-> n]
Text == [kind |-> "text", v |-> 0]
Sci(n) == [kind |-> "sci", v |-> n]
NoDate == [kind |-> "absent", t |-> 0]
BadDate == [kind |-> "invalid", t |-> 0]
Date(t) == [kind |-> "date", t |-> t]
Null == [kind |-> "null", t |-> 0]
NoDevice == [kind |-> "absent", core |-> "", len |-> 0, pad |-> 0]
Str(c, n, p) == [kind |-> "string", core |-> c, len |-> n, pad |-> p]
\* A request header that was not sent.
NoHeader == [kind |-> "absent", core |-> "", len |-> 0, pad |-> 0]

\* Math.round(x * 10) / 10 on a value in hundredths: round half up to a tenth.
Round1(h) == ((h + 5) \div 10) * 10

\* parseInt(x, 10) on a number in tenths: the fraction is cut off toward zero.
ParseInt(t) == IF t >= 0 THEN (t \div 10) * 10 ELSE 0 - (((0 - t) \div 10) * 10)

\* String.prototype.trim on a string held as core text plus surrounding blanks.
Trim(s) == [s EXCEPT !.pad = 0]
Length(s) == s.len + s.pad

(***************************************************************************)
(* validator.js predicates on request fields.  A glucose field is absent,  *)
(* free text ("abc"), a string in exponent notation ("1e2", kind "sci") or *)
(* a plain decimal (kind "num"); v is its numeric value in hundredths.     *)
(***************************************************************************)
IsNumeric(g) == g.kind = "num"
IsFloat(g, min, max) == g.kind \in {"num", "sci"} /\ min <= g.v /\ g.v <= max
IsISO8601(ts) == ts.kind = "date"
IsMongoId(u) == u \in {"u1", "u2"}
IsString(d) == d.kind = "string"
IsInt(l, min, max) == l.kind = "int" /\ min <= l.v /\ l.v <= max

Err(f, m, x) == [field |-> f, message |-> m, value |-> x]

\* body('glucose').isNumeric().withMessage(..).isFloat({min, max}).withMessage(..):
\* the chain has no bail(), so each failing validator adds its own error.
\* The chain without its range check.
GlucoseChainNoRange(b) ==
    IF ~IsNumeric(b.glucose)
    THEN <<Err("glucose", "Glucose must be a number", b.glucose)>>
    ELSE <<>>
GlucoseChain(b) ==
    (IF ~IsNumeric(b.glucose)
     THEN <<Err("glucose", "Glucose must be a number", b.glucose)>>
     ELSE <<>>)
    \o
    (IF ~IsFloat(b.glucose, GlucoseMin, GlucoseMax)
     THEN <<Err("glucose", "Glucose must be between 0 and 1000", b.glucose)>>
     ELSE <<>>)

TimestampChain(b) ==
    IF b.timestamp.kind # "absent" /\ ~IsISO8601(b.timestamp)
    THEN <<Err("timestamp", "Timestamp must be a valid ISO 8601 date", b.timestamp)>>
    ELSE <<>>

TrendChain(b) ==
    IF b.trend # Undefined /\ b.trend \notin Trends
    THEN <<Err("trend", "Trend must be one of: Rising, Falling, Stable, Unknown", b.trend)>>
    ELSE <<>>

NoiseChain(b) ==
    IF b.noise # Undefined /\ b.noise \notin Noises
    THEN <<Err("noise", "Noise must be one of: Clean, Light, Medium, Heavy", b.noise)>>
    ELSE <<>>

\* body('device').optional().isString().trim().isLength({max: 100}).withMessage(..)
DeviceChain(b) ==
    IF b.device.kind = "absent" THEN <<>>
    ELSE (IF ~IsString(b.device)
          THEN <<Err("device", "Invalid value", b.device)>>
          ELSE <<>>)
         \o
         (IF Length(Trim(b.device)) > DeviceMaxLength
          THEN <<Err("device", "Device name must be a string with max 100 characters",
                     Trim(b.device))>>
          ELSE <<>>)

UserIdChain(b) ==
    IF b.userId # Undefined /\ ~IsMongoId(b.userId)
    THEN <<Err("userId", "UserId must be a valid MongoDB ObjectId", b.userId)>>
    ELSE <<>>

\* validationResult(req).array() after the validateXDripData middleware.
validateXDripData(b) ==
    GlucoseChain(b) \o TimestampChain(b) \o TrendChain(b) \o NoiseChain(b)
        \o DeviceChain(b) \o UserIdChain(b)

\* The sanitizers of the chains: device is trimmed in req.body.
SanitizeBody(b) ==
    IF b.device.kind = "absent" THEN b ELSE [b EXCEPT !.device = Trim(b.device)]


(***************************************************************************)
(* models/Glucose.js: derived fields, schema validation, pre-save hook.    *)
(***************************************************************************)
\* The conversion with the fraction cut off instead of rounded.
glucoseMmolFloor(h) == (100 * h) \div 18018

\* Math.round((glucose / 18.018) * 10) / 10, in tenths of a mmol/L.
glucoseMmol(h) == (200 * h + 18018) \div 36036

isHigh(h) == h > 18000
\* isLow with the threshold itself counted as low.
isLowInclusive(h) == h <= 7000

isLow(h) == h < 7000
isInRange(h) == h >= 7000 /\ h <= 18000

\* getTimeAgo on a difference in milliseconds.
GlucoseGetTimeAgo(diff) ==
    LET minutes == diff \div 60000
        hours == minutes \div 60
        days == hours \div 24
    IN  IF minutes < 1 THEN [n |-> 0, text |-> "Just now"]
        ELSE IF minutes < 60
             THEN [n |-> minutes, text |-> IF minutes # 1 THEN "minutes ago" ELSE "minute ago"]
             ELSE IF hours < 24
                  THEN [n |-> hours, text |-> IF hours # 1 THEN "hours ago" ELSE "hour ago"]
                  ELSE [n |-> days, text |-> IF days # 1 THEN "days ago" ELSE "day ago"]

\* A metadata number as Mongoose casts it: free text has become NaN.
CastNumber(x) == IF x.kind = "text" THEN [kind |-> "nan", v |-> 0] ELSE x

\* Document validation run by save() before the user's pre-save hook: the
\* messages of the paths that fail (casts that failed when the document was
\* built, min / max, enum, maxlength).
MetaNumberErrors(x, path, hasMax) ==
    IF x.kind = "absent" THEN <<>>
    ELSE IF x.kind = "nan" THEN <<"Cast to Number failed for path " \o path>>
    ELSE IF x.v < PercentMin THEN <<"Path " \o path \o " is less than minimum allowed value (0)">>
    ELSE IF hasMax /\ x.v > PercentMax
         THEN <<"Path " \o path \o " is more than maximum allowed value (100)">>
         ELSE <<>>

\* maxlength without a message of its own: Mongoose's default message, which
\* quotes the value that was too long.
MaxLengthErrors(s, path, max) ==
    IF s.kind = "string" /\ Length(s) > max
    THEN <<"Path " \o path \o " (" \o s.core \o ") is longer than the maximum allowed length">>
    ELSE <<>>

\* The schema without the bounds of the metadata paths.
GlucoseSchemaValidateNoMeta(doc) ==
    (IF "glucose" \in doc.castErrors THEN <<"Cast to Number failed for path glucose">>
     ELSE IF doc.glucose < GlucoseMin THEN <<"Glucose value cannot be negative">>
     ELSE IF doc.glucose > GlucoseMax THEN <<"Glucose value seems too high (max: 1000)">>
     ELSE <<>>)
    \o (IF "timestamp" \in doc.castErrors
        THEN <<"Cast to date failed for path timestamp">> ELSE <<>>)
    \o (IF doc.trend \notin Trends
        THEN <<"Trend must be one of: Rising, Falling, Stable, Unknown">> ELSE <<>>)
    \o (IF doc.noise \notin Noises
        THEN <<"Noise must be one of: Clean, Light, Medium, Heavy">> ELSE <<>>)
    \o (IF Length(doc.device) > DeviceMaxLength
        THEN <<"Device name cannot exceed 100 characters">> ELSE <<>>)
    \o (IF "userId" \in doc.castErrors
        THEN <<"Cast to ObjectId failed for path userId">> ELSE <<>>)
GlucoseSchemaValidate(doc) ==
    (IF "glucose" \in doc.castErrors THEN <<"Cast to Number failed for path glucose">>
     ELSE IF doc.glucose < GlucoseMin THEN <<"Glucose value cannot be negative">>
     ELSE IF doc.glucose > GlucoseMax THEN <<"Glucose value seems too high (max: 1000)">>
     ELSE <<>>)
    \o (IF "timestamp" \in doc.castErrors
        THEN <<"Cast to date failed for path timestamp">> ELSE <<>>)
    \o (IF doc.trend \notin Trends
        THEN <<"Trend must be one of: Rising, Falling, Stable, Unknown">> ELSE <<>>)
    \o (IF doc.noise \notin Noises
        THEN <<"Noise must be one of: Clean, Light, Medium, Heavy">> ELSE <<>>)
    \o (IF Length(doc.device) > DeviceMaxLength
        THEN <<"Device name cannot exceed 100 characters">> ELSE <<>>)
    \o (IF "userId" \in doc.castErrors
        THEN <<"Cast to ObjectId failed for path userId">> ELSE <<>>)
    \o MetaNumberErrors(doc.metadata.rawValue, "metadata.rawValue", FALSE)
    \o MetaNumberErrors(doc.metadata.batteryLevel, "metadata.batteryLevel", TRUE)
    \o MetaNumberErrors(doc.metadata.signalStrength, "metadata.signalStrength", TRUE)
    \o MaxLengthErrors(doc.metadata.sourceIp, "metadata.sourceIp", SourceIpMaxLength)
    \o MaxLengthErrors(doc.metadata.userAgent, "metadata.userAgent", UserAgentMaxLength)

\* The hook without the clamp, and the hook without the rounding.
PreSaveNoClamp(doc, t1, t2) ==
    [doc EXCEPT !.glucose = IF doc.glucose # 0 THEN Round1(doc.glucose) ELSE doc.glucose]
PreSaveNoRound(doc, t1, t2) ==
    [doc EXCEPT !.timestamp = IF doc.timestamp > t1 THEN t2 ELSE doc.timestamp]
\* glucoseSchema.pre('save'): t1 is the clock at the comparison, t2 the clock
\* at the assignment (two readings of new Date()).
PreSave(doc, t1, t2) ==
    [doc EXCEPT !.timestamp = IF doc.timestamp > t1 THEN t2 ELSE doc.timestamp,
                !.glucose = IF doc.glucose # 0 THEN Round1(doc.glucose) ELSE doc.glucose]

(***************************************************************************)
(* controllers/glucoseController.js: handleXDripUpload.                    *)
(***************************************************************************)
MetaNumber(x, parsed) ==
    IF x.kind = "absent" THEN x
    ELSE IF x.kind = "text" THEN x
    ELSE [kind |-> "num", v |-> parsed]

\* new Glucose with 'Stable' as the default of trend.
NewGlucoseTrendStable(b, now, id) ==
    [id |-> id,
     castErrors |-> (IF b.glucose.kind \in {"absent", "text"} THEN {"glucose"} ELSE {})
                    \cup (IF b.timestamp.kind = "invalid" THEN {"timestamp"} ELSE {})
                    \cup (IF b.userId # Undefined /\ ~IsMongoId(b.userId)
                          THEN {"userId"} ELSE {}),
     glucose |-> b.glucose.v,
     timestamp |-> IF b.timestamp.kind = "absent" THEN now ELSE b.timestamp.t,
     trend |-> IF b.trend = Undefined THEN "Stable" ELSE b.trend,
     noise |-> IF b.noise = Undefined THEN "Clean" ELSE b.noise,
     device |-> IF b.device.kind = "absent" THEN XDripDevice
                ELSE Trim([core |-> b.device.core, len |-> b.device.len, pad |-> b.device.pad]),
     userId |-> b.userId,
     metadata |-> [rawValue |-> CastNumber(MetaNumber(b.rawValue, b.rawValue.v)),
                   batteryLevel |-> CastNumber(MetaNumber(b.batteryLevel, ParseInt(b.batteryLevel.v))),
                   signalStrength |-> CastNumber(MetaNumber(b.signalStrength, ParseInt(b.signalStrength.v))),
                   sourceIp |-> b.sourceIp, userAgent |-> b.userAgent]]

\* new Glucose({...}) from the destructured body; now is the clock at the
\* destructuring (the default of an absent timestamp) and id the _id the
\* document is given.  Mongoose trims the device and casts every path;
\* castErrors holds the paths whose value could not be cast (NaN, Invalid
\* Date, a string that is no ObjectId).
NewGlucose(b, now, id) ==
    [id |-> id,
     castErrors |-> (IF b.glucose.kind \in {"absent", "text"} THEN {"glucose"} ELSE {})
                    \cup (IF b.timestamp.kind = "invalid" THEN {"timestamp"} ELSE {})
                    \cup (IF b.userId # Undefined /\ ~IsMongoId(b.userId)
                          THEN {"userId"} ELSE {}),
     glucose |-> b.glucose.v,
     timestamp |-> IF b.timestamp.kind = "absent" THEN now ELSE b.timestamp.t,
     trend |-> IF b.trend = Undefined THEN "Unknown" ELSE b.trend,
     noise |-> IF b.noise = Undefined THEN "Clean" ELSE b.noise,
     device |-> IF b.device.kind = "absent" THEN XDripDevice
                ELSE Trim([core |-> b.device.core, len |-> b.device.len, pad |-> b.device.pad]),
     userId |-> b.userId,
     metadata |-> [rawValue |-> CastNumber(MetaNumber(b.rawValue, b.rawValue.v)),
                   batteryLevel |-> CastNumber(MetaNumber(b.batteryLevel, ParseInt(b.batteryLevel.v))),
                   signalStrength |-> CastNumber(MetaNumber(b.signalStrength, ParseInt(b.signalStrength.v))),
                   sourceIp |-> b.sourceIp, userAgent |-> b.userAgent]]

ValidationErrorResponse(errors) ==
    [op |-> "xdrip", status |-> 400, success |-> FALSE, error |-> "Validation Error",
     message |-> "Invalid data provided",
     details |-> [i \in 1..Len(errors) |->
                    [field |-> errors[i].field, message |-> errors[i].message,
                     value |-> errors[i].value]]]

DatabaseValidationResponse(messages) ==
    [op |-> "xdrip", status |-> 400, success |-> FALSE, error |-> "Database Validation Error",
     message |-> "Data does not meet database requirements", details |-> messages]

DuplicateResponse ==
    [op |-> "xdrip", status |-> 409, success |-> FALSE, error |-> "Duplicate Entry",
     message |-> "A reading with this data already exists"]

\* error.message of what the store throws when an insert fails, and of the
\* ReferenceError of a name the module never imported.
StoreErrorMessage == "store failure"
ReferenceErrorMessage == "mongoose is not defined"

\* The generic 500 of a catch: details carries error.message unless NODE_ENV
\* is production.
WithDetails(body, message) ==
    IF env # "production"
    THEN [f \in DOMAIN body \cup {"details"} |->
            IF f = "details" THEN message ELSE body[f]]
    ELSE body

InternalErrorResponse ==
    WithDetails([op |-> "xdrip", status |-> 500, success |-> FALSE,
                 error |-> "Internal Server Error",
                 message |-> "Failed to save glucose reading"], StoreErrorMessage)

CreatedResponse(saved, now) ==
    [op |-> "xdrip", status |-> 201, success |-> TRUE,
     message |-> "Glucose reading saved successfully",
     data |-> [id |-> saved.id, glucose |-> saved.glucose, timestamp |-> saved.timestamp,
               trend |-> saved.trend, noise |-> saved.noise, device |-> saved.device,
               timeAgo |-> GlucoseGetTimeAgo((now - saved.timestamp) * 60000)]]

\* save() whose catch lacks the branch for error code 11000: a duplicate is
\* answered like any other failure.
SaveReadingNoDuplicateBranch(doc, outcome, t1, t2) ==
    LET dbErrors == GlucoseSchemaValidate(doc)
        saved == PreSave(doc, t1, t2)
    IN  IF dbErrors # <<>>
        THEN /\ lastResp' = DatabaseValidationResponse(dbErrors)
             /\ UNCHANGED <<store, clock>>
        ELSE /\ clock' = t2
             /\ IF outcome = "ok"
                THEN /\ store' = Append(store, saved)
                     /\ lastResp' = CreatedResponse(saved, t2)
                ELSE /\ store' = store
                     /\ lastResp' = InternalErrorResponse

\* save() that writes over the newest stored reading instead of inserting.
SaveReadingOverwriting(doc, outcome, t1, t2) ==
    LET dbErrors == GlucoseSchemaValidate(doc)
        saved == PreSave(doc, t1, t2)
    IN  IF dbErrors # <<>>
        THEN /\ lastResp' = DatabaseValidationResponse(dbErrors)
             /\ UNCHANGED <<store, clock>>
        ELSE /\ clock' = t2
             /\ IF outcome = "ok"
                THEN /\ store' = IF store = <<>> THEN <<saved>>
                                 ELSE [store EXCEPT ![Len(store)] = saved]
                     /\ lastResp' = CreatedResponse(saved, t2)
                ELSE /\ store' = store
                     /\ lastResp' = IF outcome = "duplicate" THEN DuplicateResponse
                                    ELSE InternalErrorResponse

\* glucoseReading.save() and the response that follows it: validation, the
\* pre-save hook at t1 / t2, the insert with the store's outcome.
SaveReading(doc, outcome, t1, t2) ==
    LET dbErrors == GlucoseSchemaValidate(doc)
        saved == PreSave(doc, t1, t2)
    IN  IF dbErrors # <<>>
        THEN /\ lastResp' = DatabaseValidationResponse(dbErrors)
             /\ UNCHANGED <<store, clock>>
        ELSE /\ clock' = t2
             /\ IF outcome = "ok"
                THEN /\ store' = Append(store, saved)
                     /\ lastResp' = CreatedResponse(saved, t2)
                ELSE /\ store' = store
                     /\ lastResp' = IF outcome = "duplicate" THEN DuplicateResponse
                                    ELSE InternalErrorResponse

\* What the exploration records of a request: its body, the clock when it
\* arrived, the clock at the pre-save hook's comparison (t1) and assignment
\* (t2) and the store's answer, the last three only if save() got that far.
UploadRequest(b, outcome, t1, t2, rejected) ==
    [op |-> "xdrip", body |-> b, now |-> clock,
     t1 |-> IF rejected THEN clock ELSE t1,
     t2 |-> IF rejected THEN clock ELSE t2,
     outcome |-> IF rejected THEN "unasked" ELSE outcome]

\* The handler with the return of the validation branch left out: the 400 is
\* sent and the reading is saved all the same.
handleXDripUploadNoReturn(b, outcome, d1, d2) ==
    LET errors == validateXDripData(b)
        doc == NewGlucose(SanitizeBody(b), clock, Len(store) + 1)
        dbErrors == GlucoseSchemaValidate(doc)
        saved == PreSave(doc, clock + d1, clock + d1 + d2)
    IN  /\ UNCHANGED <<env, push>>
        /\ lastReq' = UploadRequest(b, outcome, clock + d1, clock + d1 + d2, dbErrors # <<>>)
        /\ IF errors # <<>>
           THEN /\ lastResp' = ValidationErrorResponse(errors)
                /\ clock' = IF dbErrors = <<>> THEN clock + d1 + d2 ELSE clock
                /\ store' = IF dbErrors = <<>> /\ outcome = "ok"
                            THEN Append(store, saved) ELSE store
           ELSE SaveReading(doc, outcome, clock + d1, clock + d1 + d2)

\* The handler behind a middleware that turns away a request without an
\* Authorization header.
handleXDripUploadAuthenticated(b, outcome, d1, d2) ==
    LET errors == validateXDripData(b)
        doc == NewGlucose(SanitizeBody(b), clock, Len(store) + 1)
        rejected == errors # <<>> \/ GlucoseSchemaValidate(doc) # <<>>
    IN  /\ UNCHANGED <<env, push>>
        /\ lastReq' = UploadRequest(b, outcome, clock + d1, clock + d1 + d2,
                                    rejected)
        /\ IF b.authorization = Undefined
           THEN /\ lastResp' = [op |-> "xdrip", status |-> 401, success |-> FALSE,
                                error |-> "Unauthorized", message |-> "Authentication required"]
                /\ UNCHANGED <<store, clock>>
           ELSE IF errors # <<>>
           THEN /\ lastResp' = ValidationErrorResponse(errors)
                /\ UNCHANGED <<store, clock>>
           ELSE SaveReading(doc, outcome, clock + d1, clock + d1 + d2)

\* The handler awaiting the push service before it answers: a notification
\* still pending holds the answer back as a failure, and so does one that
\* failed.
handleXDripUploadAwaitingPush(b, outcome, d1, d2) ==
    LET errors == validateXDripData(b)
        doc == NewGlucose(SanitizeBody(b), clock, Len(store) + 1)
        rejected == errors # <<>> \/ GlucoseSchemaValidate(doc) # <<>>
        troubled == \/ push.pending # <<>>
                    \/ \E i \in 1..Len(push.log) : push.log[i].result = "failed"
    IN  /\ UNCHANGED <<env, push>>
        /\ lastReq' = UploadRequest(b, outcome, clock + d1, clock + d1 + d2, rejected)
        /\ IF errors # <<>>
           THEN /\ lastResp' = ValidationErrorResponse(errors)
                /\ UNCHANGED <<store, clock>>
           ELSE IF troubled
           THEN /\ lastResp' = InternalErrorResponse
                /\ UNCHANGED <<store, clock>>
           ELSE SaveReading(doc, outcome, clock + d1, clock + d1 + d2)

\* The whole handler on request body b.  outcome is what the store answers
\* to the insert; d1 and d2 are the minutes that pass before the pre-save
\* hook compares and before it assigns.  The insert happens at t2.
handleXDripUpload(b, outcome, d1, d2) ==
    LET errors == validateXDripData(b)
        doc == NewGlucose(SanitizeBody(b), clock, Len(store) + 1)
        rejected == errors # <<>> \/ GlucoseSchemaValidate(doc) # <<>>
    IN  /\ UNCHANGED <<env, push>>
        /\ lastReq' = UploadRequest(b, outcome, clock + d1, clock + d1 + d2, rejected)
        /\ IF errors # <<>>
           THEN /\ lastResp' = ValidationErrorResponse(errors)
                /\ UNCHANGED <<store, clock>>
           ELSE SaveReading(doc, outcome, clock + d1, clock + d1 + d2)

(***************************************************************************)
(* controllers/glucoseController.js: getGlucoseReadings.  A limit is       *)
(* absent, an integer literal (kind "int") or anything else, such as "1.5" *)
(* (kind "text").                                                          *)
(***************************************************************************)
\* The helper without the singular forms.
getTimeAgoPlural(diff) ==
    LET minutes == diff \div 60000
        hours == minutes \div 60
        days == hours \div 24
    IN  IF minutes < 1 THEN [n |-> 0, text |-> "Just now"]
        ELSE IF minutes < 60 THEN [n |-> minutes, text |-> "minutes ago"]
             ELSE IF hours < 24 THEN [n |-> hours, text |-> "hours ago"]
                  ELSE [n |-> days, text |-> "days ago"]

\* The controller's getTimeAgo on a difference in milliseconds.
getTimeAgo(diff) ==
    LET minutes == diff \div 60000
        hours == minutes \div 60
        days == hours \div 24
    IN  IF minutes < 1 THEN [n |-> 0, text |-> "Just now"]
        ELSE IF minutes < 60
             THEN [n |-> minutes, text |-> IF minutes # 1 THEN "minutes ago" ELSE "minute ago"]
             ELSE IF hours < 24
                  THEN [n |-> hours, text |-> IF hours # 1 THEN "hours ago" ELSE "hour ago"]
                  ELSE [n |-> days, text |-> IF days # 1 THEN "days ago" ELSE "day ago"]

\* The query chains with a limit of 0 let through.
validateReadingsQueryFrom0(q) ==
    (IF q.limit.kind # "absent" /\ ~IsInt(q.limit, 0, LimitMax)
     THEN <<Err("limit", "Limit must be between 1 and 100", q.limit)>> ELSE <<>>)
    \o (IF q.userId # Undefined /\ ~IsMongoId(q.userId)
        THEN <<Err("userId", "UserId must be a valid MongoDB ObjectId", q.userId)>> ELSE <<>>)
    \o (IF q.since.kind # "absent" /\ ~IsISO8601(q.since)
        THEN <<Err("since", "Since must be a valid ISO 8601 date", q.since)>> ELSE <<>>)
    \o (IF q.until.kind # "absent" /\ ~IsISO8601(q.until)
        THEN <<Err("until", "Until must be a valid ISO 8601 date", q.until)>> ELSE <<>>)

validateReadingsQuery(q) ==
    (IF q.limit.kind # "absent" /\ ~IsInt(q.limit, LimitMin, LimitMax)
     THEN <<Err("limit", "Limit must be between 1 and 100", q.limit)>> ELSE <<>>)
    \o (IF q.userId # Undefined /\ ~IsMongoId(q.userId)
        THEN <<Err("userId", "UserId must be a valid MongoDB ObjectId", q.userId)>> ELSE <<>>)
    \o (IF q.since.kind # "absent" /\ ~IsISO8601(q.since)
        THEN <<Err("since", "Since must be a valid ISO 8601 date", q.since)>> ELSE <<>>)
    \o (IF q.until.kind # "absent" /\ ~IsISO8601(q.until)
        THEN <<Err("until", "Until must be a valid ISO 8601 date", q.until)>> ELSE <<>>)

\* const { limit = 10, ... } = req.query
QueryLimit(q) == IF q.limit.kind = "absent" THEN DefaultLimit ELSE q.limit.v

\* The query object with the upper end of the range forgotten.
MatchesNoUntil(r, q) ==
    /\ q.userId # Undefined => r.userId = q.userId
    /\ q.since.kind # "absent" => r.timestamp >= q.since.t

\* The query object built from userId, since and until.
Matches(r, q) ==
    /\ q.userId # Undefined => r.userId = q.userId
    /\ q.since.kind # "absent" => r.timestamp >= q.since.t
    /\ q.until.kind # "absent" => r.timestamp <= q.until.t

Matching(q) == {i \in 1..Len(store) : Matches(store[i], q)}

\* Glucose.find(query).sort({timestamp: -1}): the orders the store may
\* return the matching readings in.  The sort names no second key, so
\* readings of equal timestamp come in whatever order the store chooses.
RECURSIVE Orders(_)
Orders(idx) ==
    IF idx = {} THEN {<<>>}
    ELSE UNION {{<<i>> \o rest : rest \in Orders(idx \ {i})} :
                  i \in {j \in idx : \A k \in idx : store[j].timestamp >= store[k].timestamp}}

SortOrders(q) == Orders(Matching(q))

Min(a, b) == IF a <= b THEN a ELSE b

\* .limit(parseInt(limit, 10)) on an order of the matching readings.
Find(q, order) == [i \in 1..Min(QueryLimit(q), Len(order)) |-> store[order[i]]]

RECURSIVE SumGlucose(_)
SumGlucose(rs) == IF rs = <<>> THEN 0 ELSE Head(rs).glucose + SumGlucose(Tail(rs))

ReadingsStats(rs) ==
    IF Len(rs) = 0
    THEN [count |-> 0, latest |-> Null, oldest |-> Null]
    ELSE [count |-> Len(rs),
          latest |-> Date(rs[1].timestamp),
          oldest |-> Date(rs[Len(rs)].timestamp),
          average |-> ((2 * SumGlucose(rs) + 10 * Len(rs)) \div (20 * Len(rs))) * 10,
          min |-> CHOOSE m \in {rs[i].glucose : i \in 1..Len(rs)} :
                     \A i \in 1..Len(rs) : m <= rs[i].glucose,
          max |-> CHOOSE m \in {rs[i].glucose : i \in 1..Len(rs)} :
                     \A i \in 1..Len(rs) : m >= rs[i].glucose,
          range |-> [low |-> Cardinality({i \in 1..Len(rs) : rs[i].glucose < 7000}),
                     normal |-> Cardinality({i \in 1..Len(rs) :
                                   rs[i].glucose >= 7000 /\ rs[i].glucose <= 18000}),
                     high |-> Cardinality({i \in 1..Len(rs) : rs[i].glucose > 18000})]]

ReadingView(r, now) ==
    [id |-> r.id, glucose |-> r.glucose,
     glucoseMmol |-> (200 * r.glucose + 18018) \div 36036,
     timestamp |-> r.timestamp, trend |-> r.trend, noise |-> r.noise, device |-> r.device,
     timeAgo |-> getTimeAgo((now - r.timestamp) * 60000),
     isHigh |-> r.glucose > 18000, isLow |-> r.glucose < 7000,
     isInRange |-> r.glucose >= 7000 /\ r.glucose <= 18000]

QueryErrorResponse(errors) ==
    [op |-> "readings", status |-> 400, success |-> FALSE, error |-> "Validation Error",
     message |-> "Invalid query parameters",
     details |-> [i \in 1..Len(errors) |->
                    [field |-> errors[i].field, message |-> errors[i].message,
                     value |-> errors[i].value]]]

\* The 200 with the stats block computed over every matching reading
\* instead of the readings of the page.
ReadingsResponseStatsOfAll(q, rs, now) ==
    [op |-> "readings", status |-> 200, success |-> TRUE,
     message |-> [n |-> Len(rs),
                  text |-> IF Len(rs) # 1 THEN "glucose readings" ELSE "glucose reading"],
     data |-> [i \in 1..Len(rs) |-> ReadingView(rs[i], now)],
     stats |-> ReadingsStats(CHOOSE all \in {[i \in 1..Len(o) |-> store[o[i]]] :
                                               o \in SortOrders(q)} : TRUE),
     query |-> [limit |-> QueryLimit(q),
                userId |-> IF q.userId # Undefined THEN q.userId ELSE "null",
                since |-> IF q.since.kind # "absent" THEN q.since ELSE Null,
                until |-> IF q.until.kind # "absent" THEN q.until ELSE Null]]

\* The 200: `Retrieved n glucose reading(s)`, the page, its stats block and
\* the query as it was understood.
ReadingsResponse(q, rs, now) ==
    [op |-> "readings", status |-> 200, success |-> TRUE,
     message |-> [n |-> Len(rs),
                  text |-> IF Len(rs) # 1 THEN "glucose readings" ELSE "glucose reading"],
     data |-> [i \in 1..Len(rs) |-> ReadingView(rs[i], now)],
     stats |-> ReadingsStats(rs),
     query |-> [limit |-> QueryLimit(q),
                userId |-> IF q.userId # Undefined THEN q.userId ELSE "null",
                since |-> IF q.since.kind # "absent" THEN q.since ELSE Null,
                until |-> IF q.until.kind # "absent" THEN q.until ELSE Null]]

\* The whole handler on query q; order is the order the store returns the
\* matching readings in.  now is the clock at the response, queried tells
\* whether the store was asked.
getGlucoseReadings(q, order) ==
    LET errors == validateReadingsQuery(q)
    IN  /\ lastReq' = [op |-> "readings", query |-> q, now |-> clock,
                       queried |-> errors = <<>>]
        /\ lastResp' = IF errors # <<>> THEN QueryErrorResponse(errors)
                       ELSE ReadingsResponse(q, Find(q, order), clock)
        /\ UNCHANGED <<store, clock, env, push>>

(***************************************************************************)
(* controllers/glucoseController.js: getGlucoseStats.  hours is absent or  *)
(* the decimal literal of a whole number of hours; the window is counted   *)
(* in minutes.                                                             *)
(***************************************************************************)
\* $match {timestamp: {$gte: since}} with every reading in the window and
\* the lower end of the window forgotten.
StatsMatchNoSince(since) == 1..Len(store)

\* $match {timestamp: {$gte: since}} of a request without userId: the
\* indexes of the stored readings in the window.
StatsMatch(since) == {i \in 1..Len(store) : store[i].timestamp >= since}

RECURSIVE SumOver(_)
SumOver(idx) ==
    IF idx = {} THEN 0
    ELSE LET i == CHOOSE j \in idx : TRUE IN store[i].glucose + SumOver(idx \ {i})

\* $group: nothing for an empty match, else the one group.  averageGlucose
\* is kept as the pair sum / count until the response rounds it.
StatsGroup(idx) ==
    IF idx = {} THEN <<>>
    ELSE <<[count |-> Cardinality(idx),
            sum |-> SumOver(idx),
            minGlucose |-> CHOOSE m \in {store[i].glucose : i \in idx} :
                              \A i \in idx : m <= store[i].glucose,
            maxGlucose |-> CHOOSE m \in {store[i].glucose : i \in idx} :
                              \A i \in idx : m >= store[i].glucose,
            lowReadings |-> Cardinality({i \in idx : store[i].glucose < 7000}),
            normalReadings |-> Cardinality({i \in idx :
                                  store[i].glucose >= 7000 /\ store[i].glucose <= 18000}),
            highReadings |-> Cardinality({i \in idx : store[i].glucose > 18000})]>>

\* Math.round((part / count) * 100) with the fraction cut off instead.
TimeInRangeFloor(part, count) == IF count > 0 THEN (100 * part) \div count ELSE 0

\* Math.ceil in the place of Math.round.
TimeInRangeCeil(part, count) == IF count > 0 THEN (100 * part + count - 1) \div count ELSE 0

\* count > 0 ? Math.round((part / count) * 100) : 0
TimeInRange(part, count) == IF count > 0 THEN (200 * part + count) \div (2 * count) ELSE 0

\* stats[0] || {count: 0, ...} and the 200 built from it.
StatsResponse(hours, since, stats, now) ==
    LET result == IF stats # <<>> THEN stats[1]
                  ELSE [count |-> 0, sum |-> 0, minGlucose |-> 0, maxGlucose |-> 0,
                        lowReadings |-> 0, normalReadings |-> 0, highReadings |-> 0]
    IN  [op |-> "stats", status |-> 200, success |-> TRUE,
         message |-> <<"Statistics for the last", hours, "hours">>,
         data |-> [count |-> result.count,
                   averageGlucose |->
                       IF result.count = 0 THEN 0
                       ELSE ((2 * result.sum + 10 * result.count)
                                \div (20 * result.count)) * 10,
                   minGlucose |-> result.minGlucose,
                   maxGlucose |-> result.maxGlucose,
                   lowReadings |-> result.lowReadings,
                   normalReadings |-> result.normalReadings,
                   highReadings |-> result.highReadings,
                   timeInRange |-> [low |-> TimeInRange(result.lowReadings, result.count),
                                    normal |-> TimeInRange(result.normalReadings, result.count),
                                    high |-> TimeInRange(result.highReadings, result.count)],
                   period |-> [hours |-> hours, since |-> Date(since), until |-> Date(now)]]]

StatsErrorResponse ==
    WithDetails([op |-> "stats", status |-> 500, success |-> FALSE,
                 error |-> "Internal Server Error",
                 message |-> "Failed to retrieve glucose statistics"], ReferenceErrorMessage)

\* The whole handler on the path's userId and the query's hours.  The
\* module imports express-validator and the model only, so the pipeline's
\* mongoose.Types.ObjectId(userId), evaluated when userId is given, throws a
\* ReferenceError before the store is asked, and the catch answers 500.
getGlucoseStats(userId, hours) ==
    LET h == IF hours.kind = "absent" THEN DefaultHours ELSE hours.v
        since == clock - h * 60
    IN  /\ lastReq' = [op |-> "stats", userId |-> userId, hours |-> hours,
                       queried |-> userId = Undefined]
        /\ lastResp' = IF userId # Undefined THEN StatsErrorResponse
                       ELSE StatsResponse(h, since, StatsGroup(StatsMatch(since)), clock)
        /\ UNCHANGED <<store, clock, env, push>>

(***************************************************************************)
(* routes/glucose.js: GET /latest.  The file imports the controller's      *)
(* exports only; Glucose is not among them, so Glucose.findOne throws a    *)
(* ReferenceError inside the try and the catch answers 500.                *)
(***************************************************************************)
\* The data of the 200 the route would build from the reading it found.
LatestView(r, now) ==
    [id |-> r.id, glucose |-> r.glucose,
     glucoseMmol |-> (200 * r.glucose + 18018) \div 36036,
     timestamp |-> r.timestamp, trend |-> r.trend, noise |-> r.noise, device |-> r.device,
     timeAgo |-> getTimeAgo((now - r.timestamp) * 60000),
     isHigh |-> r.glucose > 18000, isLow |-> r.glucose < 7000,
     isInRange |-> r.glucose >= 7000 /\ r.glucose <= 18000]

LatestErrorResponse ==
    [op |-> "latest", status |-> 500, success |-> FALSE, error |-> "Internal Server Error",
     message |-> "Failed to retrieve latest glucose reading"]

\* The whole handler on the query's userId.
getLatest(userId) ==
    /\ lastReq' = [op |-> "latest", userId |-> userId]
    /\ lastResp' = LatestErrorResponse
    /\ UNCHANGED <<store, clock, env, push>>

(***************************************************************************)
(* Request bodies the exploration sends.                                   *)
(***************************************************************************)

\* A request is its body together with what the handler reads of the
\* connection and the headers: the client's address, its User-Agent and the
\* Authorization header.  notes is a field of the body that no chain and no
\* destructuring names.
ClientIp == Str("203.0.113.7", 11, 0)
ClientAgent == Str("xDrip+/2024", 11, 0)
BaseBody ==
    [glucose |-> Num(12345), timestamp |-> NoDate, trend |-> Undefined, noise |-> Undefined,
     device |-> NoDevice, userId |-> Undefined,
     rawValue |-> Absent, batteryLevel |-> Absent, signalStrength |-> Absent,
     notes |-> Undefined, sourceIp |-> ClientIp, userAgent |-> ClientAgent,
     authorization |-> Undefined]

NotANumber == [kind |-> "number", core |-> "42", len |-> 2, pad |-> 0]

\* Ingestion: the base body with one field changed.
BodyInputs ==
    [glucose |-> {Text, Num(0 - 10), Num(0), Num(12344), Num(100000), Num(100010)},
     timestamp |-> {BadDate} \cup {Date(t) : t \in 0..(MaxClock + 1)},
     trend |-> {"Rising", "Sideways"},
     noise |-> {"Heavy", "Loud"},
     device |-> {Str("Dexcom G6", 9, 2), Str("long", 101, 0), NotANumber},
     userId |-> {"u1", "not-an-id"},
     rawValue |-> {Num(0 - 10)},
     batteryLevel |-> {Num(855), Num(1005), Num(1010)},
     signalStrength |-> {Num(1010)},
     notes |-> {"System test reading"}]

IngestBodies ==
    {BaseBody} \cup UNION {{[BaseBody EXCEPT ![f] = x] : x \in BodyInputs[f]} :
                             f \in DOMAIN BodyInputs}

\* The delays inside the handler are explored where the timestamp is at
\* stake, the store's failures on the base body.
IngestInputs ==
    {[body |-> b, outcome |-> "ok", d1 |-> 0, d2 |-> 0] : b \in IngestBodies}
    \cup {[body |-> [BaseBody EXCEPT !.timestamp = ts], outcome |-> "ok", d1 |-> d1, d2 |-> d2] :
            ts \in {NoDate} \cup {Date(t) : t \in 0..(MaxClock + 1)}, d1 \in 0..1, d2 \in 0..1}
    \cup {[body |-> [BaseBody EXCEPT !.timestamp = ts], outcome |-> o, d1 |-> 0, d2 |-> 0] :
            ts \in {NoDate, Date(MaxClock + 1)}, o \in {"duplicate", "error"}}

\* Validation alone: every combination of the validated fields.
ValidatedInputs ==
    [glucose : {Absent, Text, Sci(10000), Sci(1000000), Num(0 - 10), Num(0), Num(4),
                Num(12345), Num(99995), Num(100000), Num(100010)},
     timestamp : {NoDate, BadDate, Date(0), Date(1)},
     trend : {Undefined, "Rising", "Sideways"},
     noise : {Undefined, "Heavy", "Loud"},
     device : {NoDevice, Str("Dexcom G6", 9, 2), Str("long", 100, 1), Str("long", 101, 0),
               NotANumber},
     userId : {Undefined, "u1", "not-an-id"},
     rawValue : {Absent}, batteryLevel : {Absent}, signalStrength : {Absent},
     notes : {Undefined}, sourceIp : {ClientIp}, userAgent : {ClientAgent},
     authorization : {Undefined}]

\* Queries: readings of two owners, dated to the first or the second minute.
PlainBodies ==
    {[BaseBody EXCEPT !.timestamp = ts, !.userId = u] :
        ts \in {Date(0), Date(1)}, u \in {Undefined, "u1"}}

NoQuery == [limit |-> Absent, userId |-> Undefined, since |-> NoDate, until |-> NoDate]

Queries ==
    [limit : {Absent, Integer(1), Integer(2)}, userId : {Undefined, "u1"},
     since : {NoDate, Date(1)}, until : {NoDate, Date(0)}]
    \cup {[NoQuery EXCEPT !.limit = l] :
            l \in {Integer(0), Integer(0 - 1), Integer(10), Integer(100), Integer(101), Text}}
    \cup {[NoQuery EXCEPT !.userId = "not-an-id"], [NoQuery EXCEPT !.since = BadDate],
          [NoQuery EXCEPT !.until = BadDate]}

\* Statistics: readings of 50, 100 and 190 mg/dL and of the two ends of the
\* normal range, dated half an hour ago, exactly 24 hours ago and a minute
\* more than that; with an owner and without.
StatsBodies ==
    {[BaseBody EXCEPT !.glucose = Num(g), !.timestamp = Date(MaxClock - 30)] :
        g \in {5000, 10000, 19000}}
    \cup {[BaseBody EXCEPT !.glucose = Num(10000), !.timestamp = Date(MaxClock - t)] :
            t \in {1440, 1441}}
    \cup {[BaseBody EXCEPT !.glucose = Num(g), !.timestamp = Date(MaxClock - 30),
                           !.userId = "u1"] : g \in {7000, 18000}}
    \cup {[BaseBody EXCEPT !.glucose = Num(5000), !.timestamp = Date(MaxClock - 1441),
                           !.userId = "u1"]}

StatsHours == {Absent, Integer(1), Integer(0)}
Owners == {Undefined, "u1"}

\* Derived fields: values around the two thresholds and ages around the
\* steps of the relative-age text, in minutes and left-over milliseconds.
DerivedValues == {0, 6990, 7000, 7010, 12000, 17990, 18000, 18010, 100000}
DerivedMinutes == {0 - 61, 0 - 1, 0, 1, 2, 59, 60, 61, 119, 120, 1439, 1440, 1441, 2879, 2880, 2881}
DerivedMillis == {0, 59999}
ElapseTimes == {1, 2, 60, 120, 1440, 2880}

(***************************************************************************)
(* Ingestion: every request body against a store of a few readings.        *)
(***************************************************************************)
Init ==
    /\ store = <<>>
    /\ clock = 0
    /\ lastReq = [op |-> "none"]
    /\ lastResp = [op |-> "none", status |-> 0]
    /\ env = DefaultEnv
    /\ push = NoPush

Tick ==
    /\ clock < MaxClock
    /\ clock' = clock + 1
    /\ UNCHANGED <<store, lastReq, lastResp, env, push>>

XDripUpload ==
    /\ Len(store) < MaxIngest
    /\ \E in \in IngestInputs :
          /\ clock + in.d1 + in.d2 <= MaxClock
          /\ handleXDripUpload(in.body, in.outcome, in.d1, in.d2)

ReadAll == \E order \in SortOrders(NoQuery) : getGlucoseReadings(NoQuery, order)

StatsAll == \E u \in Owners : getGlucoseStats(u, Absent)

LatestAll == \E u \in Owners : getLatest(u)

Next == Tick \/ XDripUpload \/ ReadAll \/ StatsAll \/ LatestAll

Spec == Init /\ [][Next]_vars

(***************************************************************************)
(* Validation: one request in flight, handled once.                        *)
(***************************************************************************)
InitValidate ==
    /\ store = <<>>
    /\ clock = 0
    /\ lastReq \in {[op |-> "pending", body |-> b] : b \in ValidatedInputs}
    /\ lastResp = [op |-> "none", status |-> 0]
    /\ env = DefaultEnv
    /\ push = NoPush

Validate ==
    /\ lastReq.op = "pending"
    /\ handleXDripUpload(lastReq.body, "ok", 0, 0)

NextValidate == Validate

SpecValidate == InitValidate /\ [][NextValidate]_vars

(***************************************************************************)
(* Queries: readings dated in the past, every query.                       *)
(***************************************************************************)
InitQuery ==
    /\ store = <<>>
    /\ clock = MaxClock
    /\ lastReq = [op |-> "none"]
    /\ lastResp = [op |-> "none", status |-> 0]
    /\ env = DefaultEnv
    /\ push = NoPush

PlainUpload ==
    /\ Len(store) < MaxStore
    /\ \E b \in PlainBodies : handleXDripUpload(b, "ok", 0, 0)

GetReadings == \E q \in Queries : \E order \in SortOrders(q) : getGlucoseReadings(q, order)

NextQuery == PlainUpload \/ GetReadings

SpecQuery == InitQuery /\ [][NextQuery]_vars

(***************************************************************************)
(* Statistics and the latest reading over readings of several ages.        *)
(***************************************************************************)
StatsUpload ==
    /\ Len(store) < MaxStore
    /\ \E b \in StatsBodies : handleXDripUpload(b, "ok", 0, 0)

GetStats == \E u \in Owners : \E h \in StatsHours : getGlucoseStats(u, h)

GetLatest == \E u \in Owners : getLatest(u)

NextStats == StatsUpload \/ GetStats \/ GetLatest

SpecStats == InitQuery /\ [][NextStats]_vars

(***************************************************************************)
(* Derived fields: the model's virtual and methods, the controller's and   *)
(* the route's expressions on one value and one age; and a reading read    *)
(* back as time passes.                                                    *)
(***************************************************************************)
InitDerived ==
    /\ store = <<>>
    /\ clock = 0
    /\ lastReq \in {[op |-> "pending", glucose |-> h, minutes |-> m, millis |-> ms] :
                      h \in DerivedValues, m \in DerivedMinutes, ms \in DerivedMillis}
    /\ lastResp = [op |-> "none", status |-> 0]
    /\ env = DefaultEnv
    /\ push = NoPush

\* A document of value h and age m minutes and ms milliseconds, seen by the
\* model's virtual and methods, by the controller and by the route.
Derive ==
    /\ lastReq.op = "pending"
    /\ LET h == lastReq.glucose
           diff == lastReq.minutes * 60000 + lastReq.millis
           r == [id |-> 1, glucose |-> h, timestamp |-> 0, trend |-> "Unknown",
                 noise |-> "Unknown", device |-> XDripDevice]
       IN  /\ lastReq' = [lastReq EXCEPT !.op = "derived"]
           /\ lastResp' = [op |-> "derived", status |-> 0,
                           model |-> [glucoseMmol |-> glucoseMmol(h), isHigh |-> isHigh(h),
                                      isLow |-> isLow(h), isInRange |-> isInRange(h),
                                      timeAgo |-> GlucoseGetTimeAgo(diff)],
                           helper |-> getTimeAgo(diff),
                           controller |-> ReadingView(r, lastReq.minutes),
                           latest |-> LatestView(r, lastReq.minutes)]
    /\ UNCHANGED <<store, clock, env, push>>

DerivedUpload ==
    /\ Len(store) < 1
    /\ \E h \in {6990, 12000, 18010} :
          handleXDripUpload([BaseBody EXCEPT !.glucose = Num(h)], "ok", 0, 0)

Elapse ==
    /\ \E t \in ElapseTimes : t > clock /\ clock' = t
    /\ UNCHANGED <<store, lastReq, lastResp, env, push>>

DerivedRead == \E order \in SortOrders(NoQuery) : getGlucoseReadings(NoQuery, order)

NextDerived == Derive \/ DerivedUpload \/ Elapse \/ DerivedRead

SpecDerived == InitDerived /\ [][NextDerived]_vars

(***************************************************************************)
(* Requests served at the same time.  lastReq and lastResp hold one entry  *)
(* per connection; a handler runs up to its await, the store serves the    *)
(* call, the handler resumes and answers.  Steps of different handlers     *)
(* interleave freely.  pc is the handler's position: "inserting" and       *)
(* "finding" wait for the store, "inserted", "failed" and "found" wait to  *)
(* answer.                                                                 *)
(***************************************************************************)
Connections == 1..MaxRequests
Idle == [op |-> "idle", pc |-> "idle"]
NoResponse == [op |-> "none", status |-> 0]

ConcurrentUploads ==
    {[body |-> BaseBody, outcome |-> "ok"],
     [body |-> [BaseBody EXCEPT !.userId = "u1"], outcome |-> "ok"],
     [body |-> BaseBody, outcome |-> "duplicate"],
     [body |-> BaseBody, outcome |-> "error"],
     [body |-> [BaseBody EXCEPT !.glucose = Text], outcome |-> "ok"]}

ConcurrentQueries ==
    {NoQuery, [NoQuery EXCEPT !.limit = Integer(1)], [NoQuery EXCEPT !.limit = Integer(0)]}

\* The _id of a new document, drawn from the number of stored readings.
ObjectIdFromCount(c) == Len(store) + 1

\* The _id new Glucose() gives the document of connection c: made on the
\* client, different for every document.
ObjectId(c) == c

\* Connections are taken in order.
Free(c) == lastReq[c].op = "idle" /\ \A d \in 1..(c - 1) : lastReq[d].op # "idle"

\* handleXDripUpload up to `await glucoseReading.save()`, validation and
\* pre-save hook of the document included.
ReceiveUpload(c) ==
    /\ Free(c)
    /\ \E in \in ConcurrentUploads :
          LET errors == validateXDripData(in.body)
              doc == NewGlucose(SanitizeBody(in.body), clock, ObjectId(c))
              dbErrors == GlucoseSchemaValidate(doc)
              answered == errors # <<>> \/ dbErrors # <<>>
          IN  /\ lastReq' = [lastReq EXCEPT ![c] =
                    [op |-> "xdrip", body |-> in.body, outcome |-> in.outcome,
                     pc |-> IF answered THEN "done" ELSE "inserting",
                     doc |-> PreSave(doc, clock, clock)]]
              /\ lastResp' = [lastResp EXCEPT ![c] =
                    IF errors # <<>> THEN ValidationErrorResponse(errors)
                    ELSE IF dbErrors # <<>> THEN DatabaseValidationResponse(dbErrors)
                    ELSE NoResponse]
    /\ UNCHANGED <<store, clock, env, push>>

\* The store serves the insert.
InsertReading(c) ==
    /\ lastReq[c].pc = "inserting"
    /\ store' = IF lastReq[c].outcome = "ok" THEN Append(store, lastReq[c].doc) ELSE store
    /\ lastReq' = [lastReq EXCEPT ![c].pc =
                      IF lastReq[c].outcome = "ok" THEN "inserted" ELSE "failed"]
    /\ UNCHANGED <<clock, lastResp, env, push>>

\* The handler that answers 201 without waiting for save().
RespondUploadEarly(c) ==
    /\ lastReq[c].pc \in {"inserting", "inserted", "failed"}
    /\ lastResp' = [lastResp EXCEPT ![c] =
          IF lastReq[c].pc \in {"inserting", "inserted"}
          THEN CreatedResponse(lastReq[c].doc, clock)
          ELSE IF lastReq[c].outcome = "duplicate" THEN DuplicateResponse
               ELSE InternalErrorResponse]
    /\ lastReq' = [lastReq EXCEPT ![c].pc = "done"]
    /\ UNCHANGED <<store, clock, env, push>>

\* handleXDripUpload after save(): the 201, or the catch.
RespondUpload(c) ==
    /\ lastReq[c].pc \in {"inserted", "failed"}
    /\ lastResp' = [lastResp EXCEPT ![c] =
          IF lastReq[c].pc = "inserted" THEN CreatedResponse(lastReq[c].doc, clock)
          ELSE IF lastReq[c].outcome = "duplicate" THEN DuplicateResponse
               ELSE InternalErrorResponse]
    /\ lastReq' = [lastReq EXCEPT ![c].pc = "done"]
    /\ UNCHANGED <<store, clock, env, push>>

\* getGlucoseReadings up to `await Glucose.find(...)`.
ReceiveQuery(c) ==
    /\ Free(c)
    /\ \E q \in ConcurrentQueries :
          LET errors == validateReadingsQuery(q)
          IN  /\ lastReq' = [lastReq EXCEPT ![c] =
                    [op |-> "readings", query |-> q,
                     pc |-> IF errors # <<>> THEN "done" ELSE "finding", found |-> <<>>]]
              /\ lastResp' = [lastResp EXCEPT ![c] =
                    IF errors # <<>> THEN QueryErrorResponse(errors) ELSE NoResponse]
    /\ UNCHANGED <<store, clock, env, push>>

\* The store serves the find.
FindReadings(c) ==
    /\ lastReq[c].pc = "finding"
    /\ \E order \in SortOrders(lastReq[c].query) :
          lastReq' = [lastReq EXCEPT ![c].found = Find(lastReq[c].query, order),
                                     ![c].pc = "found"]
    /\ UNCHANGED <<store, clock, lastResp, env, push>>

\* getGlucoseReadings after find(): the 200.
RespondQuery(c) ==
    /\ lastReq[c].pc = "found"
    /\ lastResp' = [lastResp EXCEPT ![c] =
                       ReadingsResponse(lastReq[c].query, lastReq[c].found, clock)]
    /\ lastReq' = [lastReq EXCEPT ![c].pc = "done"]
    /\ UNCHANGED <<store, clock, env, push>>

InitConcurrent ==
    /\ store = <<>>
    /\ clock = 0
    /\ lastReq = [c \in Connections |-> Idle]
    /\ lastResp = [c \in Connections |-> NoResponse]
    /\ env = DefaultEnv
    /\ push = NoPush

NextConcurrent ==
    \E c \in Connections :
        \/ ReceiveUpload(c)
        \/ InsertReading(c)
        \/ RespondUpload(c)
        \/ ReceiveQuery(c)
        \/ FindReadings(c)
        \/ RespondQuery(c)

SpecConcurrent == InitConcurrent /\ [][NextConcurrent]_vars

(***************************************************************************)
(* server.js: what answers when no route matches and when a middleware or  *)
(* a route hands an error to next().                                       *)
(***************************************************************************)
\* app.use('*', ...): the 404 of a path no route matches.
NotFoundResponse(url) ==
    [op |-> "unknown", status |-> 404, error |-> "Route not found",
     message |-> <<"The requested endpoint", url, "does not exist">>,
     availableEndpoints |-> <<"/health", "/api/xdrip", "/api/readings">>]

notFoundHandler(url) ==
    /\ lastReq' = [op |-> "unknown", url |-> url]
    /\ lastResp' = NotFoundResponse(url)
    /\ UNCHANGED <<store, clock, env, push>>

\* An error as the handler sees it: code, name, message, stack and
\* statusCode, the last 0 when the error has none.
Thrown(code, name, message, statusCode) ==
    [code |-> code, name |-> name, message |-> message,
     stack |-> <<name, message, "at Layer.handle">>, statusCode |-> statusCode]

\* The errors handed to the handler: the three codes of the store it names,
\* a code it does not name, the body parser's error on malformed JSON (which
\* carries a statusCode) and an error without code or statusCode.
ThrownErrors ==
    {Thrown("23503", "PostgrestError", "violates foreign key constraint", 0),
     Thrown("23505", "PostgrestError", "duplicate key value", 0),
     Thrown("23514", "PostgrestError", "violates check constraint", 0),
     Thrown("23502", "PostgrestError", "null value in column", 0),
     Thrown(Undefined, "SyntaxError", "Unexpected token } in JSON", 400),
     Thrown(Undefined, "TypeError", "Cannot read properties of undefined", 0)}

\* app.use((err, req, res, next) => ...): the body and status sent for err.
globalErrorResponse(err) ==
    IF err.code = "23503"
    THEN [op |-> "error", status |-> 400, error |-> "Foreign Key Violation",
          message |-> "Referenced record does not exist"]
    ELSE IF err.code = "23505"
    THEN [op |-> "error", status |-> 409, error |-> "Duplicate Entry",
          message |-> "A record with this data already exists"]
    ELSE IF err.code = "23514"
    THEN [op |-> "error", status |-> 400, error |-> "Check Constraint Violation",
          message |-> "Data does not meet validation requirements"]
    ELSE LET statusCode == IF err.statusCode # 0 THEN err.statusCode ELSE 500
         IN  IF env = "production"
             THEN [op |-> "error", status |-> statusCode, error |-> "Internal Server Error",
                   message |-> "Something went wrong"]
             ELSE [op |-> "error", status |-> statusCode, error |-> err.name,
                   message |-> err.message, stack |-> err.stack]

globalErrorHandler(err) ==
    /\ lastReq' = [op |-> "error", err |-> err]
    /\ lastResp' = globalErrorResponse(err)
    /\ UNCHANGED <<store, clock, env, push>>

(***************************************************************************)
(* The server as a whole, in each environment: uploads from two addresses  *)
(* and with several User-Agent headers (none, an ordinary one, one of the  *)
(* longest length the schema takes, two that are longer), uploads the      *)
(* validator, the schema or the store turns away, the three queries, a     *)
(* path without a route and an error handed to the error handler.          *)
(***************************************************************************)
Addresses == {ClientIp, Str("198.51.100.9", 12, 0)}
Agents ==
    {NoHeader, ClientAgent, Str("agent-C", UserAgentMaxLength, 0),
     Str("agent-A", UserAgentMaxLength + 1, 0), Str("agent-B", UserAgentMaxLength + 1, 0)}

ServerUploads ==
    {[body |-> [BaseBody EXCEPT !.sourceIp = ip, !.userAgent = ua], outcome |-> "ok"] :
        ip \in Addresses, ua \in Agents}
    \cup {[body |-> BaseBody, outcome |-> o] : o \in {"duplicate", "error"}}
    \cup {[body |-> [BaseBody EXCEPT !.glucose = Text], outcome |-> "ok"],
          [body |-> [BaseBody EXCEPT !.batteryLevel = Num(1010)], outcome |-> "ok"]}

ServerQueries == {NoQuery, [NoQuery EXCEPT !.limit = Integer(0)]}
UnknownUrls == {"/api/nowhere"}

InitServer ==
    /\ store = <<>>
    /\ clock = 0
    /\ lastReq = [op |-> "none"]
    /\ lastResp = [op |-> "none", status |-> 0]
    /\ env \in Environments
    /\ push = NoPush

ServerUpload ==
    /\ Len(store) < MaxIngest
    /\ \E in \in ServerUploads : handleXDripUpload(in.body, in.outcome, 0, 0)

ServerReadings ==
    \E q \in ServerQueries : \E order \in SortOrders(q) : getGlucoseReadings(q, order)

ServerStats == \E u \in Owners : getGlucoseStats(u, Absent)

ServerLatest == \E u \in Owners : getLatest(u)

UnknownRoute == \E url \in UnknownUrls : notFoundHandler(url)

ErrorThrown == \E err \in ThrownErrors : globalErrorHandler(err)

NextServer ==
    ServerUpload \/ ServerReadings \/ ServerStats \/ ServerLatest \/ UnknownRoute
        \/ ErrorThrown

SpecServer == InitServer /\ [][NextServer]_vars

(***************************************************************************)
(* The push channel.  server.js initialises the service when the store is  *)
(* connected and leaves it alone in demo mode; the service itself          *)
(* (services/realtime.js) is a one-way notifier: the ingestion path hands  *)
(* it the reading after a successful insert and goes on, and the delivery  *)
(* to the subscribers succeeds, fails or takes its time on its own.        *)
(***************************************************************************)
Deliveries == {"sent", "failed"}

\* The ids of the readings handed to the service so far.
Notified ==
    {push.pending[i] : i \in 1..Len(push.pending)}
        \cup {push.log[i].id : i \in 1..Len(push.log)}

\* notify(event): the hand-over of the inserted reading id to the service;
\* nothing is handed over when the service was not initialised.
notify(id) ==
    /\ push.initialised
    /\ id \notin Notified
    /\ \E i \in 1..Len(store) : store[i].id = id
    /\ push' = [push EXCEPT !.pending = Append(@, id)]
    /\ UNCHANGED <<store, clock, lastReq, lastResp, env>>

\* The service delivers the oldest pending notification, or fails to; the
\* failure is logged and goes no further.
deliver(result) ==
    /\ push.pending # <<>>
    /\ push' = [push EXCEPT !.pending = Tail(@),
                            !.log = Append(@, [id |-> Head(push.pending), result |-> result])]
    /\ UNCHANGED <<store, clock, lastReq, lastResp, env>>

PushUploads ==
    {[body |-> [BaseBody EXCEPT !.glucose = g], outcome |-> "ok"] :
        g \in {Num(12345), Num(5000), Text}}
    \cup {[body |-> BaseBody, outcome |-> o] : o \in {"duplicate", "error"}}
    \cup {[body |-> [BaseBody EXCEPT !.userId = "u1"], outcome |-> "ok"]}

\* startServer: the service is initialised if and only if the store is
\* connected.
InitPush ==
    /\ store = <<>>
    /\ clock = 0
    /\ lastReq = [op |-> "none"]
    /\ lastResp = [op |-> "none", status |-> 0]
    /\ env = DefaultEnv
    /\ \E supabaseConnected \in BOOLEAN :
          push = [NoPush EXCEPT !.initialised = supabaseConnected]

PushUpload ==
    /\ Len(store) < MaxIngest
    /\ \E in \in PushUploads : handleXDripUpload(in.body, in.outcome, 0, 0)

NotifyInserted == \E id \in 1..MaxIngest : notify(id)

Deliver == \E result \in Deliveries : deliver(result)

NextPush == PushUpload \/ NotifyInserted \/ Deliver

SpecPush == InitPush /\ [][NextPush]_vars

(***************************************************************************)
(* What the claims speak about, stated without the model's operators.      *)
(***************************************************************************)
Uploaded == lastReq.op = "xdrip"
Created == Uploaded /\ lastResp.status = 201
Newest == store[Len(store)]
Listed == lastReq.op = "readings" /\ lastResp.status = 200

\* s is h rounded to one decimal place, a half rounding up (hundredths).
RoundedTo1(s, h) == s % 10 = 0 /\ s - 5 <= h /\ h < s + 5

\* The value rule: present, a finite number, 0 <= value <= 1000.
ValueOk(g) == g.kind \in {"num", "sci"} /\ 0 <= g.v /\ g.v <= 100000
\* The value is written as a plain decimal number.
ValuePlain(g) == g.kind = "num" /\ 0 <= g.v /\ g.v <= 100000

\* The fields of a body that break their rule of the validator.
ViolatedFields(b) ==
    {f \in {"glucose"} : ~ValuePlain(b.glucose)}
    \cup {f \in {"timestamp"} : b.timestamp.kind = "invalid"}
    \cup {f \in {"trend"} :
            b.trend \notin {Undefined, "Rising", "Falling", "Stable", "Unknown"}}
    \cup {f \in {"noise"} :
            b.noise \notin {Undefined, "Clean", "Light", "Medium", "Heavy"}}
    \cup {f \in {"device"} :
            b.device.kind = "number" \/ (b.device.kind = "string" /\ b.device.len > 100)}
    \cup {f \in {"userId"} : b.userId \notin {Undefined, "u1", "u2"}}

\* A metadata percentage whose whole part lies outside [0, 100].
PercentOut(x) == x.kind = "num" /\ (x.v <= 0 - 10 \/ x.v >= 1010)
MetadataOut(b) ==
    PercentOut(b.batteryLevel) \/ PercentOut(b.signalStrength)
        \/ (b.rawValue.kind = "num" /\ b.rawValue.v < 0)
MetadataOk(b) ==
    /\ \A f \in {"batteryLevel", "signalStrength"} :
          b[f].kind = "absent" \/ (b[f].kind = "num" /\ ~PercentOut(b[f]))
    /\ b.rawValue.kind = "absent" \/ (b.rawValue.kind = "num" /\ b.rawValue.v >= 0)
    /\ Length(b.sourceIp) <= 45
    /\ Length(b.userAgent) <= 500

Entries(details, f) == {i \in 1..Len(details) : details[i].field = f}

(***************************************************************************)
(* C1.  A value in [0, 1000] that was ingested is stored, and read back by *)
(* the readings query, rounded to one decimal place; every stored value    *)
(* lies in [0, 1000] and is a multiple of 0.1.                             *)
(***************************************************************************)
C1_RoundTrip ==
    /\ Created =>
          /\ RoundedTo1(Newest.glucose, lastReq.body.glucose.v)
          /\ lastResp.data.glucose = Newest.glucose
    /\ Listed =>
          \A k \in 1..Len(lastResp.data) :
              \E i \in 1..Len(store) :
                  /\ store[i].id = lastResp.data[k].id
                  /\ store[i].glucose = lastResp.data[k].glucose
    /\ \A i \in 1..Len(store) :
          0 <= store[i].glucose /\ store[i].glucose <= 100000 /\ store[i].glucose % 10 = 0

\* 123.44 was ingested and the readings query returns it as 123.4.
C1_Witness ==
    /\ Listed
    /\ \E k \in 1..Len(lastResp.data) : lastResp.data[k].glucose = 12340

(***************************************************************************)
(* C2.  A request whose value is missing, not a finite number, below 0 or  *)
(* above 1000 gets a 400 validation error with an entry for the value      *)
(* field; 0 and 1000 are accepted.                                         *)
(***************************************************************************)
C2_ValueRule ==
    Uploaded =>
        /\ ~ValueOk(lastReq.body.glucose) =>
              /\ lastResp.status = 400
              /\ lastResp.error = "Validation Error"
              /\ Entries(lastResp.details, "glucose") # {}
        /\ (/\ lastReq.body.glucose \in {Num(0), Num(100000)}
            /\ ViolatedFields(lastReq.body) = {}) =>
              lastResp.status = 201

\* -0.1 has been rejected.
C2_Witness ==
    /\ Uploaded
    /\ lastReq.body.glucose = Num(0 - 10)
    /\ lastResp.status = 400

(***************************************************************************)
(* C3.  A request that fails validation inserts nothing: the store after   *)
(* it is the store before it, and the response is a 4xx.                   *)
(***************************************************************************)
C3_NoInsertOnValidationFailure ==
    [][(/\ lastReq'.op = "xdrip"
        /\ ViolatedFields(lastReq'.body) # {} \/ lastResp'.status = 400)
       => (/\ store' = store
           /\ lastResp'.status >= 400
           /\ lastResp'.status < 500)]_vars

\* A request with a device that is no string has been turned down while a
\* reading was stored already.
C3_Witness ==
    /\ Uploaded
    /\ lastReq.body.device.kind = "number"
    /\ lastResp.status = 400
    /\ Len(store) = 1

(***************************************************************************)
(* C4.  The details of a validation error hold exactly one entry for each  *)
(* field that breaks a rule and none for any other field, also when one    *)
(* field breaks two rules.                                                 *)
(***************************************************************************)
C4_OneEntryPerField ==
    (Uploaded /\ lastResp.status = 400 /\ lastResp.error = "Validation Error") =>
        \A f \in {"glucose", "timestamp", "trend", "noise", "device", "userId"} :
            Cardinality(Entries(lastResp.details, f))
                = IF f \in ViolatedFields(lastReq.body) THEN 1 ELSE 0

(***************************************************************************)
(* C5.  An otherwise valid request with a timestamp later than the current *)
(* time is not rejected: it gets a 201 and the stored timestamp is the     *)
(* time of the normalization.                                              *)
(***************************************************************************)
C5_FutureClamped ==
    (/\ Uploaded
     /\ lastReq.body.timestamp.kind = "date"
     /\ lastReq.body.timestamp.t > lastReq.now
     /\ ViolatedFields(lastReq.body) = {}
     /\ MetadataOk(lastReq.body)) =>
        /\ lastResp.status # 400
        /\ lastReq.outcome = "ok" =>
              /\ lastResp.status = 201
              /\ lastReq.now <= Newest.timestamp
              /\ Newest.timestamp <= lastReq.t2
              /\ lastReq.body.timestamp.t > lastReq.t1 => Newest.timestamp = lastReq.t2
              /\ lastResp.data.timestamp = Newest.timestamp

\* A timestamp one minute ahead was stored as the time of the normalization.
C5_Witness ==
    /\ Created
    /\ lastReq.body.timestamp.kind = "date"
    /\ lastReq.body.timestamp.t > lastReq.t2
    /\ Newest.timestamp = lastReq.t2
    /\ lastReq.t2 > lastReq.now

(***************************************************************************)
(* C6.  No stored reading has a timestamp later than the time it was       *)
(* inserted at, hence none later than the clock.                           *)
(***************************************************************************)
C6_NeverLaterThanInsertion ==
    /\ \A i \in 1..Len(store) : store[i].timestamp <= clock
    /\ Created => Newest.timestamp <= lastReq.t2

\* Two readings are stored, the newer one sent with a future timestamp.
C6_Witness ==
    /\ Created
    /\ Len(store) = 2
    /\ lastReq.body.timestamp.kind = "date"
    /\ lastReq.body.timestamp.t > clock

(***************************************************************************)
(* C7.  As claimed: a request with a valid value and a batteryLevel or     *)
(* signalStrength outside [0, 100] is accepted and stored without that     *)
(* field.                                                                  *)
(***************************************************************************)
C7_MetadataDropped ==
    (/\ Uploaded
     /\ ViolatedFields(lastReq.body) = {}
     /\ PercentOut(lastReq.body.batteryLevel) \/ PercentOut(lastReq.body.signalStrength)
     /\ lastReq.outcome # "duplicate" /\ lastReq.outcome # "error") =>
        /\ lastResp.status = 201
        /\ PercentOut(lastReq.body.batteryLevel) => Newest.metadata.batteryLevel.kind = "absent"
        /\ PercentOut(lastReq.body.signalStrength) =>
              Newest.metadata.signalStrength.kind = "absent"

(***************************************************************************)
(* C7, amended.  A request with a valid value and a batteryLevel or        *)
(* signalStrength whose whole part is outside [0, 100] is rejected with a  *)
(* 400 database validation error and nothing is stored; a metadata value   *)
(* that is stored is the whole part of what was sent and lies in [0, 100]. *)
(***************************************************************************)
C7_MetadataRejected ==
    [][(/\ lastReq'.op = "xdrip"
        /\ ViolatedFields(lastReq'.body) = {})
       => /\ (PercentOut(lastReq'.body.batteryLevel)
                \/ PercentOut(lastReq'.body.signalStrength)) =>
                /\ lastResp'.status = 400
                /\ lastResp'.error = "Database Validation Error"
                /\ store' = store
          /\ \A i \in 1..Len(store') :
                \A f \in {"batteryLevel", "signalStrength"} :
                    store'[i].metadata[f].kind = "num" =>
                        /\ 0 <= store'[i].metadata[f].v
                        /\ store'[i].metadata[f].v <= 1000
                        /\ store'[i].metadata[f].v % 10 = 0]_vars

\* A batteryLevel of 101 has been rejected by the schema.
C7_Witness ==
    /\ Uploaded
    /\ lastReq.body.batteryLevel = Num(1010)
    /\ lastResp.status = 400
    /\ lastResp.error = "Database Validation Error"

\* A batteryLevel of 100.5 has been stored as 100.
C7_WitnessTruncated ==
    /\ Created
    /\ lastReq.body.batteryLevel = Num(1005)
    /\ Newest.metadata.batteryLevel = Num(1000)

\* The limit a query asks for, and the stored readings its filter selects.
AskedLimit(q) == IF q.limit.kind = "absent" THEN 10 ELSE q.limit.v
Selected(q) ==
    {i \in 1..Len(store) :
        /\ q.userId = Undefined \/ store[i].userId = q.userId
        /\ q.since.kind = "absent" \/ q.since.t <= store[i].timestamp
        /\ q.until.kind = "absent" \/ store[i].timestamp <= q.until.t}
Returned == {lastResp.data[k].id : k \in 1..Len(lastResp.data)}
LimitOk(l) == l.kind = "absent" \/ (l.kind = "int" /\ 1 <= l.v /\ l.v <= 100)

(***************************************************************************)
(* C8.  A readings query returns min(limit, n) of the n stored readings    *)
(* that match its filter, newest first: each returned reading matches, no  *)
(* returned reading is older than a matching one left out, and with fewer  *)
(* matches than the limit all of them are returned.                        *)
(***************************************************************************)
C8_FilterSortLimit ==
    Listed =>
        LET q == lastReq.query
            sel == Selected(q)
            n == Cardinality(sel)
            data == lastResp.data
        IN  /\ Len(data) = IF AskedLimit(q) <= n THEN AskedLimit(q) ELSE n
            /\ Cardinality(Returned) = Len(data)
            /\ \A k \in 1..Len(data) :
                  /\ data[k].id \in sel
                  /\ data[k].timestamp = store[data[k].id].timestamp
            /\ \A k, l \in 1..Len(data) : k < l => data[k].timestamp >= data[l].timestamp
            /\ \A m \in sel \ Returned :
                  \A k \in 1..Len(data) : data[k].timestamp >= store[m].timestamp

\* limit=10 with three stored readings of two different minutes returns the
\* three.
C8_Witness ==
    /\ Listed
    /\ lastReq.query = [NoQuery EXCEPT !.limit = Integer(10)]
    /\ Len(store) = 3
    /\ Len(lastResp.data) = 3
    /\ lastResp.data[1].timestamp > lastResp.data[3].timestamp

\* A query cut short by its limit and narrowed by its filter.
C8_WitnessLimited ==
    /\ Listed
    /\ lastReq.query.limit = Integer(1)
    /\ lastReq.query.userId = "u1"
    /\ Cardinality(Selected(lastReq.query)) = 2
    /\ Len(store) = 3
    /\ Len(lastResp.data) = 1

(***************************************************************************)
(* C9.  A readings query with a limit outside [1, 100] (0, 101, negative,  *)
(* no integer) gets a 400 and the store is not queried; without a limit    *)
(* the query uses limit 10.                                                *)
(***************************************************************************)
C9_LimitRule ==
    lastReq.op = "readings" =>
        /\ ~LimitOk(lastReq.query.limit) =>
              /\ lastResp.status = 400
              /\ Entries(lastResp.details, "limit") # {}
              /\ ~lastReq.queried
        /\ (/\ LimitOk(lastReq.query.limit)
            /\ lastReq.query.userId \in {Undefined, "u1", "u2"}
            /\ lastReq.query.since.kind # "invalid"
            /\ lastReq.query.until.kind # "invalid") =>
              /\ lastResp.status = 200
              /\ lastReq.queried
              /\ lastResp.query.limit = AskedLimit(lastReq.query)
        /\ (lastReq.query.limit.kind = "absent" /\ lastResp.status = 200) =>
              lastResp.query.limit = 10

\* limit=101 has been rejected with readings in the store.
C9_Witness ==
    /\ lastReq.op = "readings"
    /\ lastReq.query.limit = Integer(101)
    /\ lastResp.status = 400
    /\ Len(store) > 0

(***************************************************************************)
(* C10.  Readings of equal timestamp that a readings query returns appear  *)
(* in the order of their insertion, the same way in every response (the    *)
(* older first throughout, or the newer first throughout).                 *)
(***************************************************************************)
C10_TiesInInsertionOrder ==
    Listed =>
        LET data == lastResp.data
            ties == {p \in (1..Len(data)) \X (1..Len(data)) :
                        p[1] < p[2] /\ data[p[1]].timestamp = data[p[2]].timestamp}
        IN  \/ \A p \in ties : data[p[1]].id < data[p[2]].id
            \/ \A p \in ties : data[p[1]].id > data[p[2]].id

(***************************************************************************)
(* Statistics and the latest reading, stated without the model's           *)
(* operators.  A window of h hours reaches back h * 60 minutes.            *)
(***************************************************************************)
StatsAsked == lastReq.op = "stats"
LatestAsked == lastReq.op = "latest"
AskedHours == IF lastReq.hours.kind = "absent" THEN 24 ELSE lastReq.hours.v
OwnedBy(i, u) == u = Undefined \/ store[i].userId = u
InWindow(u) ==
    {i \in 1..Len(store) : OwnedBy(i, u) /\ store[i].timestamp >= clock - AskedHours * 60}
ValuesOf(idx) == {store[i].glucose : i \in idx}

RECURSIVE TotalOf(_)
TotalOf(idx) ==
    IF idx = {} THEN 0
    ELSE LET top == CHOOSE i \in idx : \A j \in idx : j <= i
         IN  store[top].glucose + TotalOf(idx \ {top})

\* p is part / count * 100 rounded to a whole number, a half rounding up.
RoundedPercent(p, part, count) ==
    /\ 2 * count * p <= 200 * part + count
    /\ 200 * part + count < 2 * count * (p + 1)

\* The summary d describes the readings idx.
Summarises(d, idx) ==
    LET n == Cardinality(idx)
    IN  /\ d.count = n
        /\ d.lowReadings = Cardinality({i \in idx : store[i].glucose < 7000})
        /\ d.normalReadings =
              Cardinality({i \in idx : store[i].glucose >= 7000 /\ store[i].glucose <= 18000})
        /\ d.highReadings = Cardinality({i \in idx : store[i].glucose > 18000})
        /\ n > 0 =>
              /\ d.minGlucose \in ValuesOf(idx)
              /\ d.maxGlucose \in ValuesOf(idx)
              /\ \A v \in ValuesOf(idx) : d.minGlucose <= v /\ v <= d.maxGlucose
              /\ d.averageGlucose % 10 = 0
              /\ (d.averageGlucose - 5) * n <= TotalOf(idx)
              /\ TotalOf(idx) < (d.averageGlucose + 5) * n

ZeroSummary(d) ==
    /\ d.count = 0 /\ d.averageGlucose = 0 /\ d.minGlucose = 0 /\ d.maxGlucose = 0
    /\ d.timeInRange = [low |-> 0, normal |-> 0, high |-> 0]

C12_StatsOfOwner ==
    (StatsAsked /\ lastReq.userId # Undefined) =>
        /\ lastResp.status = 200
        /\ lastResp.data.count = Cardinality(InWindow(lastReq.userId))

(***************************************************************************)
(* C13.  A statistics request whose window holds no matching reading       *)
(* answers 200 with count, average, min, max and the three percentages     *)
(* all 0.                                                                  *)
(***************************************************************************)
C13_EmptyWindow ==
    (StatsAsked /\ InWindow(lastReq.userId) = {}) =>
        /\ lastResp.status = 200
        /\ ZeroSummary(lastResp.data)

(***************************************************************************)
(* C14.  In a statistics summary of at least one reading each bucket's     *)
(* percentage is round(bucketCount / count * 100), each rounded on its     *)
(* own, with low below 70, normal from 70 to 180 and high above 180: the   *)
(* values 50, 100 and 190 give count 3, one reading per bucket and         *)
(* 33, 33, 33.                                                             *)
(***************************************************************************)
C14_BucketPercentages ==
    (StatsAsked /\ lastResp.status = 200 /\ lastResp.data.count > 0) =>
        LET d == lastResp.data
            idx == InWindow(lastReq.userId)
        IN  /\ d.lowReadings = Cardinality({i \in idx : store[i].glucose < 7000})
            /\ d.normalReadings =
                  Cardinality({i \in idx : store[i].glucose >= 7000 /\ store[i].glucose <= 18000})
            /\ d.highReadings = Cardinality({i \in idx : store[i].glucose > 18000})
            /\ RoundedPercent(d.timeInRange.low, d.lowReadings, d.count)
            /\ RoundedPercent(d.timeInRange.normal, d.normalReadings, d.count)
            /\ RoundedPercent(d.timeInRange.high, d.highReadings, d.count)
            /\ (Cardinality(idx) = 3 /\ ValuesOf(idx) = {5000, 10000, 19000}) =>
                  /\ d.count = 3
                  /\ d.lowReadings = 1 /\ d.normalReadings = 1 /\ d.highReadings = 1
                  /\ d.timeInRange = [low |-> 33, normal |-> 33, high |-> 33]

\* The summary of 50, 100 and 190 mg/dL.
C14_Witness ==
    /\ StatsAsked
    /\ lastResp.status = 200
    /\ Len(store) = 3
    /\ ValuesOf(InWindow(Undefined)) = {5000, 10000, 19000}
    /\ lastResp.data.count = 3
    /\ lastResp.data.timeInRange.low + lastResp.data.timeInRange.normal
          + lastResp.data.timeInRange.high = 99

(***************************************************************************)
(* C15.  The latest-reading request answers 200 with the stored reading    *)
(* of greatest timestamp among those of the owner asked for (of all, when  *)
(* none is asked for), and 404 when there is none; it gives no other       *)
(* answer.                                                                 *)
(***************************************************************************)
C15_LatestOrNotFound ==
    LatestAsked =>
        LET idx == {i \in 1..Len(store) : OwnedBy(i, lastReq.userId)}
        IN  /\ idx = {} => lastResp.status = 404
            /\ idx # {} =>
                  /\ lastResp.status = 200
                  /\ \A i \in idx : lastResp.data.timestamp >= store[i].timestamp

(***************************************************************************)
(* Derived fields, stated without the model's operators.                   *)
(***************************************************************************)
Derived == lastResp.op = "derived"
Flags(v) == <<v.isLow, v.isInRange, v.isHigh>>
FlagsOf(h) == <<h < 7000, 7000 <= h /\ h <= 18000, h > 18000>>
OneOf(f) == Cardinality({k \in 1..3 : f[k]}) = 1

\* The relative-age text of m elapsed whole minutes: a number and a unit.
AgeText(m) ==
    IF m < 1 THEN [n |-> 0, text |-> "Just now"]
    ELSE IF m < 60 THEN [n |-> m, text |-> IF m = 1 THEN "minute ago" ELSE "minutes ago"]
    ELSE IF m < 1440
         THEN [n |-> m \div 60, text |-> IF m \div 60 = 1 THEN "hour ago" ELSE "hours ago"]
         ELSE [n |-> m \div 1440, text |-> IF m \div 1440 = 1 THEN "day ago" ELSE "days ago"]

\* r is h / 18.018 rounded to one decimal place (r in tenths, h in hundredths).
RoundedMmol(r, h) == 36036 * r <= 200 * h + 18018 /\ 200 * h + 18018 < 36036 * (r + 1)

C17_RelativeAge ==
    /\ Derived =>
          /\ lastResp.helper = AgeText(lastReq.minutes)
          /\ lastResp.model.timeAgo = lastResp.helper
          /\ lastResp.controller.timeAgo = lastResp.helper
    /\ Listed =>
          \A k \in 1..Len(lastResp.data) :
              lastResp.data[k].timeAgo = AgeText(lastReq.now - lastResp.data[k].timestamp)
    /\ \A i \in 1..Len(store) : "timeAgo" \notin DOMAIN store[i]

\* A reading of exactly one day ago: '1 day ago'.
C17_Witness ==
    /\ Derived
    /\ lastReq.minutes = 1440
    /\ lastReq.millis = 59999
    /\ lastResp.helper = [n |-> 1, text |-> "day ago"]
    /\ lastResp.model.timeAgo = [n |-> 1, text |-> "day ago"]

\* A stored reading read back an hour after its timestamp: '1 hour ago'.
C17_WitnessReadBack ==
    /\ Listed
    /\ Len(lastResp.data) = 1
    /\ lastReq.now - store[1].timestamp = 60
    /\ lastResp.data[1].timeAgo = [n |-> 1, text |-> "hour ago"]

C19_InsertFailure ==
    [][(/\ lastReq'.op = "xdrip"
        /\ lastReq'.outcome \in {"duplicate", "error"})
       => (/\ store' = store
           /\ lastResp'.status = IF lastReq'.outcome = "duplicate" THEN 409 ELSE 500)]_vars

\* A valid reading met a uniqueness conflict while one reading was stored.
C19_Witness ==
    /\ Uploaded
    /\ lastReq.outcome = "duplicate"
    /\ ViolatedFields(lastReq.body) = {}
    /\ lastResp.status = 409
    /\ Len(store) = 1

(***************************************************************************)
(* C20.  A reading is created once, by the insert of an ingestion that is  *)
(* answered 201, and never changes: every step keeps each stored reading   *)
(* with its id, value, timestamp, trend, noise, device and owner, adds at  *)
(* most one reading, and adds one only with a 201; the readings, latest    *)
(* and statistics requests leave the store as it is.                       *)
(***************************************************************************)
C20_ReadingsImmutable ==
    [][/\ Len(store') >= Len(store)
       /\ \A i \in 1..Len(store) : store'[i] = store[i]
       /\ \A i, j \in 1..Len(store') : store'[i].id = store'[j].id => i = j
       /\ Len(store') > Len(store) =>
             /\ Len(store') = Len(store) + 1
             /\ lastReq'.op = "xdrip"
             /\ lastResp'.status = 201
             /\ lastResp'.data.id = store'[Len(store')].id
       /\ (lastReq'.op \in {"readings", "latest", "stats"} /\ lastReq' # lastReq) =>
             store' = store]_vars

\* Two readings are stored and a statistics request has been answered.
C20_Witness ==
    /\ StatsAsked
    /\ Len(store) = 2
    /\ store[1].id # store[2].id

(***************************************************************************)
(* C28.  The stats block of a readings response describes the returned     *)
(* page, not every matching reading: its count is the number of readings   *)
(* returned (at most the limit), low + normal + high is that count and     *)
(* min <= average <= max; with no reading returned it holds count 0,       *)
(* latest and oldest null, and no average, min, max or range.              *)
(***************************************************************************)
C28_StatsOfPage ==
    Listed =>
        LET st == lastResp.stats
            data == lastResp.data
            values == {data[k].glucose : k \in 1..Len(data)}
        IN  /\ st.count = Len(data)
            /\ st.count <= AskedLimit(lastReq.query)
            /\ Len(data) = 0 =>
                  /\ DOMAIN st = {"count", "latest", "oldest"}
                  /\ st.latest = Null /\ st.oldest = Null
            /\ Len(data) > 0 =>
                  /\ st.range.low + st.range.normal + st.range.high = st.count
                  /\ st.range.low = Cardinality({k \in 1..Len(data) : data[k].glucose < 7000})
                  /\ st.range.high = Cardinality({k \in 1..Len(data) : data[k].glucose > 18000})
                  /\ st.min \in values /\ st.max \in values
                  /\ \A v \in values : st.min <= v /\ v <= st.max
                  /\ st.min <= st.average /\ st.average <= st.max
                  /\ st.latest = Date(data[1].timestamp)
                  /\ st.oldest = Date(data[Len(data)].timestamp)

\* Three readings match, limit=1 returns one and the block counts one.
C28_Witness ==
    /\ Listed
    /\ lastReq.query.limit = Integer(1)
    /\ Cardinality(Selected(lastReq.query)) = 3
    /\ Len(lastResp.data) = 1
    /\ lastResp.stats.count = 1

\* No reading matches: the block is count 0 with latest and oldest null.
C28_WitnessEmpty ==
    /\ Listed
    /\ Len(store) > 0
    /\ Len(lastResp.data) = 0
    /\ lastResp.stats.count = 0

(***************************************************************************)
(* C29.  In every statistics summary lowReadings + normalReadings +        *)
(* highReadings = count, and for count > 0 each percentage lies in         *)
(* [0, 100] and the three percentages sum to 99, 100 or 101.               *)
(***************************************************************************)
C29_BucketsPartition ==
    (StatsAsked /\ lastResp.status = 200) =>
        LET d == lastResp.data
            t == d.timeInRange
        IN  /\ d.lowReadings + d.normalReadings + d.highReadings = d.count
            /\ d.count > 0 =>
                  /\ \A b \in {"low", "normal", "high"} : 0 <= t[b] /\ t[b] <= 100
                  /\ t.low + t.normal + t.high \in {99, 100, 101}

\* Two readings in one bucket and one in another: 67 and 33.
C29_Witness ==
    /\ StatsAsked
    /\ lastResp.status = 200
    /\ lastResp.data.count = 3
    /\ lastResp.data.timeInRange.low = 67
    /\ lastResp.data.timeInRange.normal = 33

(***************************************************************************)
(* C26.  A valid ingestion payload without the optional fields is stored   *)
(* with trend Unknown, noise Clean, device xDrip+ and the current time as  *)
(* timestamp; valid values given for these fields are stored as they were  *)
(* given, except a future timestamp.                                       *)
(***************************************************************************)
StoredAsGiven(trimmed) ==
    Created =>
        LET b == lastReq.body
            r == Newest
        IN  /\ r.trend = IF b.trend = Undefined THEN "Unknown" ELSE b.trend
            /\ r.noise = IF b.noise = Undefined THEN "Clean" ELSE b.noise
            /\ b.device.kind = "absent" =>
                  r.device = [core |-> "xDrip+", len |-> 6, pad |-> 0]
            /\ b.device.kind # "absent" =>
                  /\ r.device.core = b.device.core
                  /\ r.device.len = b.device.len
                  /\ r.device.pad = IF trimmed THEN 0 ELSE b.device.pad
            /\ b.timestamp.kind = "absent" => r.timestamp = lastReq.now
            /\ (b.timestamp.kind = "date" /\ b.timestamp.t <= lastReq.t1) =>
                  r.timestamp = b.timestamp.t

C26_DefaultsAndGiven == StoredAsGiven(FALSE)

(***************************************************************************)
(* C26, amended.  As C26, with the device stored without the blanks that   *)
(* surround it in the payload.                                             *)
(***************************************************************************)
C26_DefaultsAndTrimmed == StoredAsGiven(TRUE)

\* A payload of a value only was stored a minute after the start.
C26_Witness ==
    /\ Created
    /\ lastReq.body = BaseBody
    /\ lastReq.now = 1
    /\ Newest.noise = "Clean"
    /\ Newest.timestamp = 1

\* A device given with blanks around it was stored without them.
C26_WitnessTrimmed ==
    /\ Created
    /\ lastReq.body.device.kind = "string"
    /\ lastReq.body.device.pad = 2
    /\ Newest.device.pad = 0

(***************************************************************************)
(* Requests served at the same time, stated without the model's operators. *)
(***************************************************************************)
UploadsServed == {c \in Connections : lastReq[c].op = "xdrip"}
Acknowledged == {c \in Connections : lastResp[c].status = 201}
Quiescent == \A c \in Connections : lastReq[c].pc = "done"
StoredWithId(id) == {i \in 1..Len(store) : store[i].id = id}
\* The uploads a sequential execution would store: valid, and accepted by
\* the store.
Storable == {c \in UploadsServed : ViolatedFields(lastReq[c].body) = {}
                                     /\ lastReq[c].outcome = "ok"}

(***************************************************************************)
(* C21.  However the steps of ingestion and query requests served at the   *)
(* same time interleave: an ingestion answered 201 has added exactly one   *)
(* reading, no stored reading is there twice and none disappears, a query  *)
(* returns stored readings only, and when all requests are answered the    *)
(* store holds what serving them one after the other would have stored:    *)
(* one reading for every valid ingestion the store accepted.               *)
(***************************************************************************)
C21_InterleavingsSerialise ==
    /\ \A c \in Acknowledged :
          /\ Cardinality(StoredWithId(lastResp[c].data.id)) = 1
          /\ \E i \in StoredWithId(lastResp[c].data.id) :
                /\ store[i].glucose = lastResp[c].data.glucose
                /\ store[i].userId = lastReq[c].body.userId
    /\ \A i, j \in 1..Len(store) : store[i].id = store[j].id => i = j
    /\ Len(store) <= Cardinality(Storable)
    /\ \A c \in Connections :
          (lastReq[c].op = "readings" /\ lastResp[c].status = 200) =>
              \A k \in 1..Len(lastResp[c].data) :
                  StoredWithId(lastResp[c].data[k].id) # {}
    /\ Quiescent =>
          /\ Len(store) = Cardinality(Storable)
          /\ Acknowledged = Storable
          /\ \A c \in Storable :
                \E i \in 1..Len(store) :
                    /\ store[i].userId = lastReq[c].body.userId
                    /\ RoundedTo1(store[i].glucose, lastReq[c].body.glucose.v)
                    /\ store[i].id = lastResp[c].data.id

\* Two ingestions were both waiting for the store and both are now
\* acknowledged, with a query answered in between.
C21_Witness ==
    /\ Quiescent
    /\ Cardinality(Acknowledged) = 2
    /\ \E c \in Connections :
          /\ lastReq[c].op = "readings"
          /\ lastResp[c].status = 200
          /\ Len(lastResp[c].data) = 1

(***************************************************************************)
(* C30.  An ingestion request gets exactly one response, a 201, 400, 409   *)
(* or 500: a response once sent is never followed by another, a request    *)
(* whose handler has finished has one, and a 201 is sent only when the     *)
(* reading it reports is in the store with the id, value and timestamp of  *)
(* the response.                                                           *)
(***************************************************************************)
C30_OneResponseAfterInsert ==
    [][\A c \in Connections :
          /\ lastResp[c].status # 0 => lastResp'[c] = lastResp[c]
          /\ (lastReq'[c].op = "xdrip" /\ lastReq'[c].pc = "done") =>
                lastResp'[c].status \in {201, 400, 409, 500}
          /\ (lastReq'[c].op = "xdrip" /\ lastReq'[c].pc # "done") =>
                lastResp'[c].status = 0
          /\ (lastReq'[c].op = "xdrip" /\ lastResp'[c].status = 201) =>
                \E i \in 1..Len(store) :
                    /\ store[i].id = lastResp'[c].data.id
                    /\ store[i].glucose = lastResp'[c].data.glucose
                    /\ store[i].timestamp = lastResp'[c].data.timestamp]_vars

\* One ingestion has its 201 while another still waits for the store.
C30_Witness ==
    \E c, d \in Connections :
        /\ lastResp[c].status = 201
        /\ lastReq[d].op = "xdrip"
        /\ lastReq[d].pc = "inserting"
        /\ Len(store) = 1

(***************************************************************************)
(* Ingestion without credentials and with fields nobody reads.             *)
(***************************************************************************)
\* The reading the handler stores for the request just answered, had the
\* request come without its notes.
StoredWithoutNotes ==
    PreSave(NewGlucose(SanitizeBody([lastReq.body EXCEPT !.notes = Undefined]),
                       lastReq.now, Len(store)),
            lastReq.t1, lastReq.t2)

Neutral(b) == [b EXCEPT !.sourceIp = ClientIp, !.userAgent = ClientAgent]
Redacted(r) == [r EXCEPT !.metadata.sourceIp = ClientIp, !.metadata.userAgent = ClientAgent]

\* The answer to an upload of b that arrives at now, is given the id, passes
\* the hook at t1 / t2 and meets the store's outcome.
UploadAnswer(b, now, id, t1, t2, outcome) ==
    LET errors == validateXDripData(b)
        doc == NewGlucose(SanitizeBody(b), now, id)
        dbErrors == GlucoseSchemaValidate(doc)
    IN  IF errors # <<>> THEN ValidationErrorResponse(errors)
        ELSE IF dbErrors # <<>> THEN DatabaseValidationResponse(dbErrors)
        ELSE IF outcome = "ok" THEN CreatedResponse(PreSave(doc, t1, t2), t2)
        ELSE IF outcome = "duplicate" THEN DuplicateResponse
        ELSE InternalErrorResponse

SensitiveFields == {"metadata", "sourceIp", "userAgent"}

\* C23: no response depends on the address or the User-Agent of an ingesting
\* request.  The answer to an upload is the answer the same upload from the
\* reference address and agent gets (with the store's outcome the same, or
\* whatever it would have been had the store not been asked); the answer to
\* a readings query is the one computed from the stored readings with their
\* address and agent replaced by the reference ones; the data of the
\* statistics and of the latest reading has no field of that metadata.
C23_NoSourceOrAgent ==
    [][/\ lastReq'.op = "xdrip" =>
            \E o \in IF lastReq'.outcome = "unasked" THEN {"ok", "duplicate", "error"}
                     ELSE {lastReq'.outcome} :
                lastResp' = UploadAnswer(Neutral(lastReq'.body), lastReq'.now, Len(store) + 1,
                                         lastReq'.t1, lastReq'.t2, o)
       /\ (lastReq'.op = "readings" /\ lastReq'.queried) =>
            \E order \in SortOrders(lastReq'.query) :
                LET found == Find(lastReq'.query, order)
                IN  lastResp' = ReadingsResponse(lastReq'.query,
                                                 [i \in DOMAIN found |-> Redacted(found[i])],
                                                 lastReq'.now)
       /\ (lastReq'.op \in {"stats", "latest"} /\ "data" \in DOMAIN lastResp') =>
            DOMAIN lastResp'.data \cap SensitiveFields = {}]_vars

(***************************************************************************)
(* The shape of the bodies and what an error body tells.                   *)
(***************************************************************************)
Answered == lastResp.op # "none"
ErrorKinds ==
    {"Validation Error", "Database Validation Error", "Duplicate Entry",
     "Internal Server Error", "Route not found", "Foreign Key Violation",
     "Check Constraint Violation"}

\* C24: every response is a success body (success = true, a message and
\* data) or an error body (success = false, one of the fixed error kinds and
\* a message, with an entry per field in details when the validator turned
\* the request away).
C24_TwoShapes ==
    Answered =>
        /\ "success" \in DOMAIN lastResp
        /\ IF lastResp.success
           THEN {"message", "data"} \subseteq DOMAIN lastResp
           ELSE /\ {"error", "message"} \subseteq DOMAIN lastResp
                /\ lastResp.error \in ErrorKinds
                /\ lastResp.error = "Validation Error" =>
                      /\ "details" \in DOMAIN lastResp
                      /\ \A i \in 1..Len(lastResp.details) :
                            {"field", "message"} \subseteq DOMAIN lastResp.details[i]

\* C25: in production no error body has a stack, a 500 has no details, and
\* the error handler's body names neither the error's name nor its message;
\* outside production every 500 carries the detail (details or a stack); in
\* every environment the error handler answers the code 23505 with 409 and
\* the codes 23503 and 23514 with 400.
C25_RedactedInProduction ==
    Answered =>
        /\ (env = "production" /\ lastResp.status >= 400) =>
              /\ "stack" \notin DOMAIN lastResp
              /\ lastResp.status >= 500 => "details" \notin DOMAIN lastResp
              /\ lastReq.op = "error" =>
                    /\ lastResp.error # lastReq.err.name
                    /\ lastResp.message # lastReq.err.message
        /\ (env # "production" /\ lastResp.status = 500) =>
              "details" \in DOMAIN lastResp \/ "stack" \in DOMAIN lastResp
        /\ lastReq.op = "error" =>
              /\ lastReq.err.code = "23505" => lastResp.status = 409
              /\ lastReq.err.code \in {"23503", "23514"} => lastResp.status = 400

(***************************************************************************)
(* Ingestion and the push channel.                                         *)
(***************************************************************************)
\* The status an upload is due by its fields and the store's answer alone.
DueStatus(q) ==
    IF ViolatedFields(q.body) # {} \/ ~MetadataOk(q.body) THEN 400
    ELSE IF q.outcome = "ok" THEN 201
    ELSE IF q.outcome = "duplicate" THEN 409
    ELSE 500

====
